---- MODULE Spec2Model ----
(***************************************************************************)
(* Model of the OCR screen of src/app/(tabs)/ocr.tsx: the component state  *)
(* (imageUri, ocrText, isLoading, apiConfigured), the mount effect, the    *)
(* press handler pickImage and the transmission routine sendToOCR.         *)
(*                                                                         *)
(* Every press of the control starts a "run" of pickImage.  A run is       *)
(* suspended at each await of the source (permission request, picker,      *)
(* fetch, res.json()); one action of the model is one continuation: the    *)
(* settling of the awaited promise together with all the synchronous code  *)
(* that follows it up to the next await.  State setters are taken to be    *)
(* committed before the next event is handled.                             *)
(*                                                                         *)
(* The string literals of the source are Chinese; the module language      *)
(* admits ASCII only, so each literal is rendered by an ASCII stand-in     *)
(* (one stand-in per literal, distinct literals kept distinct).            *)
(***************************************************************************)
EXTENDS Integers, Sequences, FiniteSets, TLC

\* ------------------------------------------------------------- bounds
\* Number of presses of the control (runs of pickImage) explored.
MaxRuns == 2

Runs == 1..MaxRuns

\* ------------------------------------------------- literals of the source
\* Alert.alert titles and messages.
TitleConfigError == "ConfigError"
MsgConfigError == "API key not configured, set up app.config.js and .env first"
TitlePermissionError == "PermissionError"
MsgPermissionError == "photo library permission required"
TitleError == "Error"
MsgNoImageData == "cannot get image data"
MsgPickError == "error while picking image"
\* new Error('...') of sendToOCR when the key is absent.
MsgKeyMissing == "API key not configured"
\* setOcrText placeholder for a response without text.
NoTextPlaceholder == "no text detected, try another image."
\* Prefixes of the two failure surfaces of sendToOCR's catch block.
FailedPrefix == "recognition failed: "
AlertPrefix == "error during OCR processing: "
UnknownError == "unknown error"

\* --------------------------------------------------- JSON values (tagged)
JUndefined == [t |-> "undefined"]
JNull == [t |-> "null"]
JStr(s) == [t |-> "string", v |-> s]
JArr(a) == [t |-> "array", v |-> a]
JObj(f) == [t |-> "object", v |-> f]
NoFields == [k \in {} |-> JUndefined]

\* Thrown values: an Error object carrying a message.
Err(m) == [isError |-> TRUE, message |-> m]
NoThrow == [isError |-> FALSE, message |-> ""]

\* obj.key on a JSON value: a TypeError on null/undefined, undefined when the
\* member is missing.  The result is <<thrown, value>>.
Member(obj, key) ==
    IF obj.t \in {"null", "undefined"}
    THEN <<Err("cannot read property '" \o key \o "' of " \o obj.t), JUndefined>>
    ELSE IF obj.t = "object" /\ key \in DOMAIN obj.v
         THEN <<NoThrow, obj.v[key]>>
         ELSE <<NoThrow, JUndefined>>

\* obj?.key : undefined on null/undefined, never throws.
OptMember(obj, key) ==
    IF obj.t \in {"null", "undefined"} THEN JUndefined ELSE Member(obj, key)[2]

\* arr?.[0]
OptFirst(arr) ==
    IF arr.t \in {"null", "undefined"} THEN JUndefined
    ELSE IF arr.t = "array" /\ Len(arr.v) > 0 THEN arr.v[1] ELSE JUndefined

\* JavaScript truthiness of the values that occur here.
Truthy(j) == j.t \in {"object", "array"} \/ (j.t = "string" /\ j.v # "")

\* ------------------------------------------------------ inputs explored
\* asset.uri values the picker can return; NullUri is useState's null.
NullUri == "null"
Uris == {"file:///a.jpg", "file:///b.jpg"}

\* Texts the service can recognise (one with surrounding white space).
Texts == {"Hello", "  Milk 2.50 \n"}

Annotated(txt) ==
    JObj("responses" :> JArr(<<JObj("fullTextAnnotation" :> JObj("text" :> txt))>>))

\* Bodies of a 2xx response once parsed: the contract's shape with each
\* optional part present or missing, and the JSON document null.
SuccessBodies ==
    { JNull,
      JObj(NoFields),
      JObj("responses" :> JArr(<<>>)),
      JObj("responses" :> JArr(<<JObj(NoFields)>>)),
      JObj("responses" :> JArr(<<JObj("fullTextAnnotation" :> JObj(NoFields))>>)),
      Annotated(JStr("")) }
    \cup { Annotated(JStr(t)) : t \in Texts }

\* Bodies of a non-2xx response once parsed.
ErrorBodies ==
    { JNull,
      JObj(NoFields),
      JObj("error" :> JObj(NoFields)),
      JObj("error" :> JObj("message" :> JStr(""))),
      JObj("error" :> JObj("message" :> JStr("Bad image"))) }

\* Non-2xx responses: status and status text (empty under HTTP/2).
ErrorStatuses ==
    { [status |-> 400, statusText |-> "Bad Request"],
      [status |-> 500, statusText |-> ""] }
NoRes == [status |-> 0, statusText |-> ""]

\* Rejections of fetch and of res.json().
TransportError == Err("Network request failed")
ParseError == Err("JSON Parse error: Unexpected token")

\* ------------------------------------------------------------- state
VARIABLES
    apiKey,             \* Constants.expoConfig?.extra?.apiKey is truthy
    mounted,            \* the mount effect has run
    mountKey,           \* what the mount effect read: "unread", "present", "absent"
    imageUri,           \* useState: imageUri
    ocrText,            \* useState: ocrText
    isLoading,          \* useState: isLoading
    apiConfigured,      \* useState: apiConfigured
    run,                \* run[r]: where run r of pickImage is suspended
    started,            \* number of presses so far
    alertCount,         \* number of Alert.alert calls so far
    lastAlert,          \* <<title, message>> of the latest Alert.alert
    configReads,        \* number of reads of the host configuration
    sendCalls,          \* number of calls of sendToOCR
    permissionRequests, \* number of requestMediaLibraryPermissionsAsync calls
    pickerLaunches,     \* number of launchImageLibraryAsync calls
    fetches,            \* number of fetch calls
    lastEvent,          \* the step that ran last: its run, the await that
                        \* settled ("press" for a press) and the settlement
    imageRun,           \* the run whose setImageUri set imageUri (0: none)
    textRun             \* the run whose setOcrText set ocrText (0: none)

vars == <<apiKey, mounted, mountKey, imageUri, ocrText, isLoading, apiConfigured,
          run, started, alertCount, lastAlert, configReads, sendCalls,
          permissionRequests, pickerLaunches, fetches, lastEvent, imageRun,
          textRun>>

screen == <<imageUri, ocrText, isLoading, apiConfigured>>
effects == <<alertCount, lastAlert, configReads, sendCalls,
             permissionRequests, pickerLaunches, fetches>>

Event(r, kind, data) == [run |-> r, kind |-> kind, data |-> data]
NoData == [t |-> "none"]

Pcs == {"idle", "permission", "picker", "fetch", "errorJson", "json", "done"}

\* A sendToOCR call of run r is between its setIsLoading(true) and its finally.
InFlight(r) == run[r].pc \in {"fetch", "errorJson", "json"}

At(r, pc) == [run EXCEPT ![r] = [pc |-> pc, res |-> NoRes]]

NoAlert == <<"", "">>

Init ==
    /\ apiKey \in BOOLEAN
    /\ mounted = FALSE
    /\ mountKey = "unread"
    /\ imageUri = NullUri
    /\ ocrText = ""
    /\ isLoading = FALSE
    /\ apiConfigured = FALSE
    /\ run = [r \in Runs |-> [pc |-> "idle", res |-> NoRes]]
    /\ started = 0
    /\ alertCount = 0
    /\ lastAlert = NoAlert
    /\ configReads = 0
    /\ sendCalls = 0
    /\ permissionRequests = 0
    /\ pickerLaunches = 0
    /\ fetches = 0
    /\ lastEvent = Event(0, "init", NoData)
    /\ imageRun = 0
    /\ textRun = 0

\* Alert.alert(title, message)
Alert(title, message) ==
    /\ alertCount' = alertCount + 1
    /\ lastAlert' = <<title, message>>

\* ------------------------------------------------------------ mount effect
\* Mutant: the flag is set whatever the configuration holds.
useEffectConfiguredAlways(key) == TRUE

\* Mutant: the flag is set when the configuration holds no key.
useEffectConfiguredInverted(key) == ~key

\* if (apiKey) setApiConfigured(true)
useEffectConfigured(key) == key

useEffect ==
    /\ ~mounted
    /\ mounted' = TRUE
    /\ configReads' = configReads + 1
    /\ mountKey' = IF apiKey THEN "present" ELSE "absent"
    /\ apiConfigured' = IF useEffectConfigured(apiKey) THEN TRUE ELSE apiConfigured
    /\ lastEvent' = Event(0, "mount", NoData)
    /\ UNCHANGED <<apiKey, imageUri, imageRun, ocrText, textRun, isLoading, run,
                   started, alertCount,
                   lastAlert, sendCalls, permissionRequests, pickerLaunches, fetches>>

\* The host configuration is ambient and mutable; sendToOCR re-reads it and
\* guards against its absence, so the model lets it change.
ConfigChange ==
    /\ apiKey' = ~apiKey
    /\ lastEvent' = Event(0, "config", NoData)
    /\ UNCHANGED <<mounted, mountKey, screen, imageRun, textRun, run, started,
                   effects>>

\* ------------------------------------------------------------- the control
\* disabled={isLoading || !apiConfigured}
ButtonDisabled == isLoading \/ ~apiConfigured

\* pickImage up to its first await: the gate check, then the permission request.
pickImageGate == apiConfigured

pickImage(r) ==
    IF ~pickImageGate
    THEN /\ Alert(TitleConfigError, MsgConfigError)
         /\ run' = At(r, "done")
         /\ UNCHANGED permissionRequests
    ELSE /\ permissionRequests' = permissionRequests + 1
         /\ run' = At(r, "permission")
         /\ UNCHANGED <<alertCount, lastAlert>>

\* A press of the control: dropped while the control is disabled, otherwise
\* onPress={pickImage}.
Press ==
    /\ started < MaxRuns
    /\ started' = started + 1
    /\ lastEvent' = Event(started + 1, "press", NoData)
    /\ IF ButtonDisabled
       THEN /\ run' = At(started + 1, "done")
            /\ UNCHANGED <<alertCount, lastAlert, permissionRequests>>
       ELSE pickImage(started + 1)
    /\ UNCHANGED <<apiKey, mounted, mountKey, screen, imageRun, textRun,
                   configReads, sendCalls,
                   pickerLaunches, fetches>>

\* --------------------------------------------------- pickImage, continued
\* Outcomes of requestMediaLibraryPermissionsAsync.
PermissionOutcomes == {"granted", "denied", "rejected"}

\* Results of launchImageLibraryAsync: cancelled (assets null), or one asset
\* with its uri and, possibly, its base64 data.
Canceled == [canceled |-> TRUE, assets |-> <<>>]
Picked(uri, hasData) ==
    [canceled |-> FALSE, assets |-> <<[uri |-> uri, base64 |-> hasData]>>]
PickerResults ==
    {Canceled} \cup { Picked(u, b) : u \in Uris, b \in BOOLEAN }

\* Settlements of launchImageLibraryAsync: a rejection or a result.
PickerRejected == [rejected |-> TRUE, result |-> Canceled]
PickerOutcomes ==
    {PickerRejected} \cup { [rejected |-> FALSE, result |-> x] : x \in PickerResults }

\* Mutant: the cancel flag of the result is not consulted.
IsPickAlways(result) == TRUE

\* if (!result.canceled)
IsPick(result) == ~result.canceled

\* catch of pickImage: Alert.alert(TitleError, MsgPickError)
pickImageCatch(r) ==
    /\ Alert(TitleError, MsgPickError)
    /\ run' = At(r, "done")

\* Mutant: the permission result is not checked.
GrantedAlways(outcome) == TRUE

\* permission.granted
Granted(outcome) == outcome = "granted"

\* The permission promise of run r settles; pickImage runs on to the picker.
PermissionSettles(r, outcome) ==
    /\ run[r].pc = "permission"
    /\ lastEvent' = Event(r, "permission", outcome)
    /\ CASE outcome = "rejected" ->
              /\ pickImageCatch(r)
              /\ UNCHANGED pickerLaunches
         [] outcome # "rejected" /\ ~Granted(outcome) ->
              /\ Alert(TitlePermissionError, MsgPermissionError)
              /\ run' = At(r, "done")
              /\ UNCHANGED pickerLaunches
         [] outcome # "rejected" /\ Granted(outcome) ->
              /\ pickerLaunches' = pickerLaunches + 1
              /\ run' = At(r, "picker")
              /\ UNCHANGED <<alertCount, lastAlert>>
    /\ UNCHANGED <<apiKey, mounted, mountKey, screen, imageRun, textRun, started,
                   configReads,
                   sendCalls, permissionRequests, fetches>>

\* ------------------------------------------------------------- sendToOCR
\* error instanceof Error ? error.message : UnknownError
ErrorMessage(e) == IF e.isError THEN e.message ELSE UnknownError

\* Mutant: the result text does not carry the error's message.
CatchTextGeneric(e) == FailedPrefix \o UnknownError

\* catch: setOcrText(...)
CatchText(e) == FailedPrefix \o ErrorMessage(e)

\* catch: Alert.alert(TitleError, ...)
CatchAlert(e) == AlertPrefix \o ErrorMessage(e)

\* Mutant: the loading flag is not cleared when sendToOCR ends.
finallyKeepsLoading == TRUE

\* finally: setIsLoading(false)
finallyIsLoading == FALSE

\* Mutant: sendToOCR uses the value read at mount and reads nothing itself.
sendToOCRNoConfigRead == configReads

\* const apiKey = Constants.expoConfig?.extra?.apiKey, read inside sendToOCR
sendToOCRConfigReads == configReads + 1

\* sendToOCR ends through catch and finally.
Failed(r, e) ==
    /\ ocrText' = CatchText(e)
    /\ textRun' = r
    /\ Alert(TitleError, CatchAlert(e))
    /\ isLoading' = finallyIsLoading
    /\ run' = At(r, "done")

\* sendToOCR ends through setOcrText(text) and finally.
Succeeded(r, text) ==
    /\ ocrText' = text
    /\ textRun' = r
    /\ isLoading' = finallyIsLoading
    /\ run' = At(r, "done")
    /\ UNCHANGED <<alertCount, lastAlert>>

\* Mutant: the loading flag is not raised before the request.
sendToOCRLoadingNotSet == isLoading

\* setIsLoading(true), the first statement of sendToOCR
sendToOCRIsLoading == TRUE

\* Mutant: the request goes out whatever the configuration holds.
KeyMissingNever == FALSE

\* if (!apiKey) throw new Error(MsgKeyMissing)
KeyMissing == ~apiKey

\* sendToOCR from its call up to the await of fetch.
sendToOCR(r) ==
    /\ sendCalls' = sendCalls + 1
    /\ configReads' = sendToOCRConfigReads
    /\ IF KeyMissing
       THEN /\ Failed(r, Err(MsgKeyMissing))
            /\ UNCHANGED fetches
       ELSE /\ isLoading' = sendToOCRIsLoading
            /\ fetches' = fetches + 1
            /\ run' = At(r, "fetch")
            /\ UNCHANGED <<ocrText, textRun, alertCount, lastAlert>>

\* Mutant: the displayed image is not replaced by the new pick.
setImageUriKept(asset) == imageUri

\* setImageUri(asset.uri)
setImageUri(asset) == asset.uri

\* The picker promise of run r settles; pickImage runs to its end, calling
\* sendToOCR (not awaited) when the asset carries base64 data.
PickerSettles(r, outcome) ==
    /\ run[r].pc = "picker"
    /\ lastEvent' = Event(r, "picker", outcome)
    /\ LET result == outcome.result IN
       IF outcome.rejected \/ (IsPick(result) /\ Len(result.assets) = 0)
       THEN /\ pickImageCatch(r)
            /\ UNCHANGED <<screen, imageRun, textRun, configReads, sendCalls,
                           fetches>>
       ELSE IF ~IsPick(result)
       THEN /\ run' = At(r, "done")
            /\ UNCHANGED <<screen, imageRun, textRun, alertCount, lastAlert,
                           configReads, sendCalls,
                           fetches>>
       ELSE LET asset == result.assets[1] IN
            /\ imageUri' = setImageUri(asset)
            /\ imageRun' = r
            /\ IF asset.base64
               THEN sendToOCR(r)
               ELSE /\ Alert(TitleError, MsgNoImageData)
                    /\ run' = At(r, "done")
                    /\ UNCHANGED <<ocrText, textRun, isLoading, configReads, sendCalls,
                                   fetches>>
            /\ UNCHANGED apiConfigured
    /\ UNCHANGED <<apiKey, mounted, mountKey, started, permissionRequests,
                   pickerLaunches>>

\* Settlements of fetch: a rejection, a 2xx response, a non-2xx response.
FetchRejected == [rejected |-> TRUE, ok |-> FALSE, res |-> NoRes]
FetchOk == [rejected |-> FALSE, ok |-> TRUE, res |-> NoRes]
FetchNotOk(s) == [rejected |-> FALSE, ok |-> FALSE, res |-> s]
FetchOutcomes ==
    {FetchRejected, FetchOk} \cup { FetchNotOk(s) : s \in ErrorStatuses }

\* Mutant: a rejected fetch is issued again instead of being surfaced.
FetchSettlesRetry(r, outcome) ==
    /\ run[r].pc = "fetch"
    /\ lastEvent' = Event(r, "fetch", outcome)
    /\ IF outcome.rejected
       THEN /\ fetches' = fetches + 1
            /\ UNCHANGED <<run, ocrText, textRun, isLoading, alertCount, lastAlert>>
       ELSE /\ run' = [run EXCEPT ![r] =
                          IF outcome.ok THEN [pc |-> "json", res |-> NoRes]
                          ELSE [pc |-> "errorJson", res |-> outcome.res]]
            /\ UNCHANGED <<ocrText, textRun, isLoading, alertCount, lastAlert, fetches>>
    /\ UNCHANGED <<apiKey, mounted, mountKey, imageUri, imageRun, apiConfigured, started,
                   configReads, sendCalls, permissionRequests, pickerLaunches>>

\* The fetch promise of run r settles; sendToOCR runs on to res.json().
FetchSettles(r, outcome) ==
    /\ run[r].pc = "fetch"
    /\ lastEvent' = Event(r, "fetch", outcome)
    /\ IF outcome.rejected
       THEN /\ Failed(r, TransportError)
       ELSE /\ run' = [run EXCEPT ![r] =
                          IF outcome.ok THEN [pc |-> "json", res |-> NoRes]
                          ELSE [pc |-> "errorJson", res |-> outcome.res]]
            /\ UNCHANGED <<ocrText, textRun, isLoading, alertCount, lastAlert>>
    /\ UNCHANGED <<apiKey, mounted, mountKey, imageUri, imageRun, apiConfigured, started,
                   configReads, sendCalls, permissionRequests, pickerLaunches,
                   fetches>>

\* Settlements of res.json(): a rejection or a parsed body.
JsonRejected == [rejected |-> TRUE, body |-> JUndefined]
Parsed(b) == [rejected |-> FALSE, body |-> b]

\* errorData.error?.message || res.statusText, as <<thrown, message>>
ServiceMessage(errorData, res) ==
    LET e == Member(errorData, "error")
        m == OptMember(e[2], "message")
    IN  IF e[1].isError THEN <<e[1], "">>
        ELSE <<NoThrow, IF Truthy(m) THEN m.v ELSE res.statusText>>

\* new Error of a non-2xx response
ServiceError(res, message) ==
    Err("API error (" \o ToString(res.status) \o "): " \o message)

\* res.json() of a non-2xx response settles (a rejection is replaced by {});
\* sendToOCR throws and ends.
ErrorJsonSettles(r, json) ==
    /\ run[r].pc = "errorJson"
    /\ lastEvent' = Event(r, "errorJson", json)
    /\ LET errorData == IF json.rejected THEN JObj(NoFields) ELSE json.body
           m == ServiceMessage(errorData, run[r].res)
       IN  Failed(r, IF m[1].isError THEN m[1] ELSE ServiceError(run[r].res, m[2]))
    /\ UNCHANGED <<apiKey, mounted, mountKey, imageUri, imageRun, apiConfigured, started,
                   configReads, sendCalls, permissionRequests, pickerLaunches,
                   fetches>>

\* Mutant: the annotation is dereferenced without optional chaining.
ExtractTextStrict(data) ==
    LET rs == Member(data, "responses")
        an == Member(OptFirst(rs[2]), "fullTextAnnotation")
        tx == Member(an[2], "text")
    IN  IF rs[1].isError THEN <<rs[1], JUndefined>>
        ELSE IF an[1].isError THEN <<an[1], JUndefined>>
        ELSE IF tx[1].isError THEN <<tx[1], JUndefined>>
        ELSE <<NoThrow, tx[2]>>

\* data.responses?.[0]?.fullTextAnnotation?.text, as <<thrown, value>>
ExtractText(data) ==
    LET rs == Member(data, "responses")
    IN  IF rs[1].isError THEN <<rs[1], JUndefined>>
        ELSE <<NoThrow,
               OptMember(OptMember(OptFirst(rs[2]), "fullTextAnnotation"), "text")>>

\* Mutant: the recognised text is trimmed before it is displayed.
IsSpace(c) == c \in {" ", "\n", "\t"}
RECURSIVE TrimLeft(_)
TrimLeft(str) ==
    IF Len(str) > 0 /\ IsSpace(SubSeq(str, 1, 1))
    THEN TrimLeft(SubSeq(str, 2, Len(str))) ELSE str
RECURSIVE TrimRight(_)
TrimRight(str) ==
    IF Len(str) > 0 /\ IsSpace(SubSeq(str, Len(str), Len(str)))
    THEN TrimRight(SubSeq(str, 1, Len(str) - 1)) ELSE str
ResultTextTrimmed(text) ==
    IF ~Truthy(text) THEN NoTextPlaceholder ELSE TrimLeft(TrimRight(text.v))

\* if (!text) placeholder else text
ResultText(text) == IF ~Truthy(text) THEN NoTextPlaceholder ELSE text.v

\* res.json() of a 2xx response settles; sendToOCR interprets it and ends.
JsonSettles(r, json) ==
    /\ run[r].pc = "json"
    /\ lastEvent' = Event(r, "json", json)
    /\ IF json.rejected
       THEN Failed(r, ParseError)
       ELSE LET x == ExtractText(json.body) IN
            IF x[1].isError THEN Failed(r, x[1]) ELSE Succeeded(r, ResultText(x[2]))
    /\ UNCHANGED <<apiKey, mounted, mountKey, imageUri, imageRun, apiConfigured, started,
                   configReads, sendCalls, permissionRequests, pickerLaunches,
                   fetches>>

\* ------------------------------------------------------------- render
\* {!apiConfigured && ...}: the configuration warning
ShowsWarning == ~apiConfigured

\* {isLoading && ...}: the loading indicator
ShowsIndicator == isLoading

\* {ocrText !== '' && ...}: the result text
ShowsResult == ocrText # ""

\* ------------------------------------------------------- specification
Next ==
    \/ useEffect
    \/ ConfigChange
    \/ Press
    \/ \E r \in Runs, o \in PermissionOutcomes : PermissionSettles(r, o)
    \/ \E r \in Runs, o \in PickerOutcomes : PickerSettles(r, o)
    \/ \E r \in Runs, o \in FetchOutcomes : FetchSettles(r, o)
    \/ \E r \in Runs, j \in {JsonRejected} \cup { Parsed(b) : b \in ErrorBodies } :
          ErrorJsonSettles(r, j)
    \/ \E r \in Runs, j \in {JsonRejected} \cup { Parsed(b) : b \in SuccessBodies } :
          JsonSettles(r, j)

Spec == Init /\ [][Next]_vars

\* The same screen in its most regular use: the control is pressed only
\* when no earlier run is still under way, and the host configuration stays
\* as it was at launch.  Every behaviour of SpecSequential is a behaviour of
\* Spec.
PressSequential ==
    /\ \A q \in Runs : run[q].pc \in {"idle", "done"}
    /\ Press

NextSequential ==
    \/ useEffect
    \/ PressSequential
    \/ \E r \in Runs, o \in PermissionOutcomes : PermissionSettles(r, o)
    \/ \E r \in Runs, o \in PickerOutcomes : PickerSettles(r, o)
    \/ \E r \in Runs, o \in FetchOutcomes : FetchSettles(r, o)
    \/ \E r \in Runs, j \in {JsonRejected} \cup { Parsed(b) : b \in ErrorBodies } :
          ErrorJsonSettles(r, j)
    \/ \E r \in Runs, j \in {JsonRejected} \cup { Parsed(b) : b \in SuccessBodies } :
          JsonSettles(r, j)

SpecSequential == Init /\ [][NextSequential]_vars

TypeOK ==
    /\ apiKey \in BOOLEAN /\ mounted \in BOOLEAN /\ isLoading \in BOOLEAN
    /\ apiConfigured \in BOOLEAN
    /\ mountKey \in {"unread", "present", "absent"}
    /\ imageUri \in Uris \cup {NullUri}
    /\ \A r \in Runs : run[r].pc \in Pcs
    /\ started \in 0..MaxRuns
    /\ \A r \in Runs : run[r].pc # "idle" <=> r <= started

\* ------------------------------------------------------------- claims
InFlightRuns == { r \in Runs : InFlight(r) }

\* C1: at most one sendToOCR operation is in flight at any time, also when
\* the control is pressed again while an earlier run is still suspended at
\* the permission request or at the picker.
C1_AtMostOneInFlight == Cardinality(InFlightRuns) <= 1

\* C2: isLoading is true exactly while a sendToOCR operation is in flight.
C2_LoadingIffInFlight == isLoading <=> InFlightRuns # {}

\* C3: while the credential is absent (the mount effect found none, so
\* apiConfigured is false) no press has led to a permission request, a
\* picker presentation or a network request.
C3_NoSideEffectUnconfigured ==
    (mountKey # "present" \/ ~apiConfigured)
        => permissionRequests = 0 /\ pickerLaunches = 0 /\ fetches = 0

\* C3 witness: the screen is mounted without a credential and the control
\* has been pressed.
C3_Witness ==
    /\ mountKey = "absent"
    /\ ~apiConfigured
    /\ lastEvent.kind = "press"
    /\ started = MaxRuns

\* The error messages that can arise inside sendToOCR for the inputs explored.
FailureMessages ==
    { "API key not configured",
      "Network request failed",
      "JSON Parse error: Unexpected token",
      "API error (400): Bad image",
      "API error (400): Bad Request",
      "API error (500): Bad image",
      "API error (500): ",
      "cannot read property 'error' of null",
      "cannot read property 'responses' of null" }

\* The settlements that C4 names as errors, by the step they arise in.
PermissionDenied(e) == e.kind = "permission" /\ e.data = "denied"
NoImageData(e) ==
    /\ e.kind = "picker"
    /\ ~e.data.rejected
    /\ ~e.data.result.canceled
    /\ ~e.data.result.assets[1].base64
ServiceFailure(e) == e.kind = "errorJson"
TransportOrParseFailure(e) ==
    \/ e.kind = "fetch" /\ e.data.rejected
    \/ e.kind = "json" /\ e.data.rejected

\* The result text describes the failure the alert reports: both carry the
\* same message, each behind the prefix of its surface.
SameFailure(text, alert) ==
    \E m \in FailureMessages \cup {MsgPermissionError, MsgNoImageData, MsgPickError} :
        /\ text \in {m, FailedPrefix \o m}
        /\ alert[2] \in {m, AlertPrefix \o m}

\* C4 as stated: every error of steps 2-5 (permission denied, picker result
\* without data, non-2xx status, transport or parse exception) updates the
\* result text and raises an alert with the same message.
C4_EveryErrorTextAndAlert ==
    [][ (\/ PermissionDenied(lastEvent')
         \/ NoImageData(lastEvent')
         \/ ServiceFailure(lastEvent')
         \/ TransportOrParseFailure(lastEvent'))
        => /\ alertCount' = alertCount + 1
           /\ SameFailure(ocrText', lastAlert') ]_vars

\* C4 amended: an error inside sendToOCR (non-2xx status, transport or parse
\* exception) sets the result text to the failure prefix followed by the
\* error's message m and raises one alert whose body is the alert prefix
\* followed by the same m; an error inside pickImage (permission denied,
\* picker result without data) raises one alert and leaves the result text
\* unchanged.
C4_SendErrorsTextAndAlert ==
    [][ /\ (ServiceFailure(lastEvent') \/ TransportOrParseFailure(lastEvent'))
           => /\ alertCount' = alertCount + 1
              /\ \E m \in FailureMessages :
                    /\ ocrText' = FailedPrefix \o m
                    /\ lastAlert' = <<TitleError, AlertPrefix \o m>>
        /\ PermissionDenied(lastEvent')
           => /\ alertCount' = alertCount + 1
              /\ lastAlert' = <<TitlePermissionError, MsgPermissionError>>
              /\ ocrText' = ocrText
        /\ NoImageData(lastEvent')
           => /\ alertCount' = alertCount + 1
              /\ lastAlert' = <<TitleError, MsgNoImageData>>
              /\ ocrText' = ocrText ]_vars

\* C4 witness: a service error has just been surfaced on both surfaces,
\* after an earlier permission denial.
C4_Witness ==
    /\ lastEvent.kind = "errorJson"
    /\ lastEvent.run = MaxRuns
    /\ ocrText = FailedPrefix \o "API error (400): Bad image"
    /\ lastAlert = <<TitleError, AlertPrefix \o "API error (400): Bad image">>
    /\ alertCount = 2

\* C5 as stated: the configuration is read once, at mount, and never again.
C5_ConfigReadOnce == configReads <= 1

\* C5 amended: the configuration is read once at mount and once more at the
\* start of every sendToOCR call, and by no other step.
C5_ConfigReadAtMountAndEachSend ==
    configReads = (IF mounted THEN 1 ELSE 0) + sendCalls

\* C5 witness: two transmissions have started, each with its own read.
C5_Witness == mounted /\ sendCalls = 2 /\ fetches = 2 /\ configReads = 3

\* C6: a cancelled picker result ends the run with no alert, no Loading, no
\* request, and the displayed image and result text unchanged.
C6_CancelChangesNothing ==
    [][ (lastEvent'.kind = "picker"
         /\ lastEvent'.data = [rejected |-> FALSE, result |-> Canceled])
        => /\ run'[lastEvent'.run].pc = "done"
           /\ alertCount' = alertCount /\ lastAlert' = lastAlert
           /\ isLoading' = isLoading
           /\ sendCalls' = sendCalls /\ fetches' = fetches
           /\ imageUri' = imageUri /\ ocrText' = ocrText ]_vars

\* C6 witness: a picker was cancelled while an earlier image and its result
\* were on display.
C6_Witness ==
    /\ lastEvent.kind = "picker"
    /\ lastEvent.data = [rejected |-> FALSE, result |-> Canceled]
    /\ imageUri \in Uris
    /\ ocrText = "Hello"
    /\ ~isLoading

\* C7: when a run ends, on whatever exit path, the screen is interactive
\* again: isLoading is false and the control is enabled.
C7_InteractiveAfterRunEnds ==
    [][ \A r \in Runs :
          (run[r].pc \notin {"idle", "done"} /\ run'[r].pc = "done")
          => (~isLoading' /\ ~ButtonDisabled') ]_vars

\* A result is on display and no sendToOCR operation is in flight.
ResultState == ocrText # "" /\ InFlightRuns = {}

\* C8: in a Result state nothing left over from the earlier run blocks the
\* control, and a press there re-enters the pipeline at the permission request.
C8_RetriggerFromResult ==
    /\ [](ResultState => ~ButtonDisabled)
    /\ [][ (ResultState /\ lastEvent'.kind = "press")
           => /\ run'[lastEvent'.run].pc = "permission"
              /\ permissionRequests' = permissionRequests + 1 ]_vars

\* C8 witness: the first run has ended in a failure result and the second
\* press has just requested the permission again.
C8_Witness ==
    /\ lastEvent = Event(2, "press", NoData)
    /\ run[1].pc = "done"
    /\ run[2].pc = "permission"
    /\ ocrText = FailedPrefix \o "Network request failed"
    /\ ~isLoading

\* C9: a 2xx response whose responses[0].fullTextAnnotation.text is a
\* non-empty string t makes the result text exactly t and raises no alert.
C9_TextVerbatim ==
    [][ \A t \in Texts :
          (lastEvent'.kind = "json" /\ lastEvent'.data = Parsed(Annotated(JStr(t))))
          => /\ ocrText' = t
             /\ alertCount' = alertCount /\ lastAlert' = lastAlert ]_vars

\* C9 witness: a text with surrounding white space is on display as received.
C9_Witness ==
    /\ lastEvent.kind = "json"
    /\ lastEvent.data = Parsed(Annotated(JStr("  Milk 2.50 \n")))
    /\ ocrText = "  Milk 2.50 \n"

\* 2xx bodies of the contract's shape whose text is missing or empty.
MissingTextBodies ==
    { JObj(NoFields),
      JObj("responses" :> JArr(<<>>)),
      JObj("responses" :> JArr(<<JObj(NoFields)>>)),
      JObj("responses" :> JArr(<<JObj("fullTextAnnotation" :> JObj(NoFields))>>)),
      Annotated(JStr("")) }

Contains(str, sub) ==
    \/ Len(sub) = 0
    \/ \E i \in 1..(Len(str) - Len(sub) + 1) : SubSeq(str, i, i + Len(sub) - 1) = sub

\* The message C11 expects for a settlement of res.json() of a non-2xx
\* response with status text st: the body's error.message when the body
\* parses and carries a non-empty one, the status text otherwise.
HasServerMessage(json) ==
    /\ ~json.rejected
    /\ json.body.t = "object"
    /\ "error" \in DOMAIN json.body.v
    /\ json.body.v["error"].t = "object"
    /\ "message" \in DOMAIN json.body.v["error"].v
    /\ json.body.v["error"].v["message"].t = "string"
    /\ json.body.v["error"].v["message"].v # ""
ExpectedServiceMessage(json, st) ==
    IF HasServerMessage(json) THEN json.body.v["error"].v["message"].v ELSE st

\* C11: for every non-2xx response the result text and the alert both
\* contain the server's error.message when the body parses and carries one,
\* and the HTTP status text otherwise; a message is always produced.
C11_ServiceMessageOrStatusText ==
    [][ lastEvent'.kind = "errorJson"
        => LET m == ExpectedServiceMessage(lastEvent'.data,
                                           run[lastEvent'.run].res.statusText)
           IN  /\ alertCount' = alertCount + 1
               /\ Len(ocrText') > Len(FailedPrefix)
               /\ Contains(ocrText', m)
               /\ Contains(lastAlert'[2], m) ]_vars

\* C11 restricted to settlements other than the JSON document null.
C11_ExceptNullBody ==
    [][ (lastEvent'.kind = "errorJson" /\ lastEvent'.data # Parsed(JNull))
        => LET m == ExpectedServiceMessage(lastEvent'.data,
                                           run[lastEvent'.run].res.statusText)
           IN  /\ alertCount' = alertCount + 1
               /\ Len(ocrText') > Len(FailedPrefix)
               /\ Contains(ocrText', m)
               /\ Contains(lastAlert'[2], m) ]_vars


\* C12: a denied permission ends the run with one alert and nothing else: no
\* picker, no request, no Loading, and the displayed image and result text
\* unchanged.
C12_DenialOnlyAlerts ==
    [][ PermissionDenied(lastEvent')
        => /\ run'[lastEvent'.run].pc = "done"
           /\ alertCount' = alertCount + 1
           /\ lastAlert' = <<TitlePermissionError, MsgPermissionError>>
           /\ pickerLaunches' = pickerLaunches
           /\ sendCalls' = sendCalls /\ fetches' = fetches
           /\ isLoading' = isLoading
           /\ imageUri' = imageUri /\ ocrText' = ocrText ]_vars

\* C12 witness: the permission was denied while an earlier image and its
\* result were on display.
C12_Witness ==
    /\ PermissionDenied(lastEvent)
    /\ lastAlert = <<TitlePermissionError, MsgPermissionError>>
    /\ imageUri \in Uris
    /\ ocrText = NoTextPlaceholder
    /\ ~isLoading


\* The order in which a run passes its awaits.
Rank(pc) ==
    CASE pc = "idle" -> 0
      [] pc = "permission" -> 1
      [] pc = "picker" -> 2
      [] pc = "fetch" -> 3
      [] pc \in {"errorJson", "json"} -> 4
      [] pc = "done" -> 5

\* C13: no request is retried: a request is issued only by the step in which
\* a run leaves its picker, one request at a time; no run passes an await
\* twice, so each press causes at most one request; in particular the step
\* that surfaces a failed request issues none.
C13_NoRetry ==
    /\ [](fetches <= permissionRequests)
    /\ [][ /\ fetches' # fetches
              => /\ fetches' = fetches + 1
                 /\ lastEvent'.kind = "picker"
                 /\ run[lastEvent'.run].pc = "picker"
                 /\ run'[lastEvent'.run].pc = "fetch"
           /\ \A r \in Runs :
                 \/ run'[r] = run[r]
                 \/ Rank(run'[r].pc) > Rank(run[r].pc) ]_vars

\* C13 witness: the first request failed, and the next request was issued
\* only after a second press had gone through permission and picker.
C13_Witness ==
    /\ run[1].pc = "done"
    /\ ocrText = FailedPrefix \o "Network request failed"
    /\ lastEvent.kind = "picker"
    /\ lastEvent.run = 2
    /\ run[2].pc = "fetch"
    /\ fetches = 2


\* C14: the presentation states are mutually exclusive: at most one of the
\* warning (Unconfigured), the loading indicator (Loading) and the result
\* text (Result-or-Error) is displayed, Idle being the state with none; in
\* particular the indicator and a result text are never displayed together.
C14_ExclusivePresentation ==
    /\ ~(ShowsWarning /\ ShowsIndicator)
    /\ ~(ShowsWarning /\ ShowsResult)
    /\ ~(ShowsIndicator /\ ShowsResult)

\* The part of C14 that holds: the warning excludes indicator and result.
C14_WarningExclusive ==
    ShowsWarning => ~ShowsIndicator /\ ~ShowsResult


\* A picker settlement that hands an asset with base64 data to sendToOCR.
PickWithData(e) ==
    /\ e.kind = "picker"
    /\ ~e.data.rejected
    /\ ~e.data.result.canceled
    /\ e.data.result.assets[1].base64

\* C15: the steps of a run are strictly ordered: the picker is presented
\* only by the step that settles the run's permission request as granted;
\* isLoading becomes true only in the step that settles the run's picker
\* with an asset carrying data, and in no other step; the request is issued
\* only in that step, with isLoading true when it is issued.
C15_StepOrder ==
    [][ /\ pickerLaunches' # pickerLaunches
           => /\ lastEvent'.kind = "permission"
              /\ lastEvent'.data = "granted"
              /\ run[lastEvent'.run].pc = "permission"
              /\ run'[lastEvent'.run].pc = "picker"
        /\ (~isLoading /\ isLoading')
           => /\ PickWithData(lastEvent')
              /\ run[lastEvent'.run].pc = "picker"
              /\ fetches' = fetches + 1
        /\ fetches' # fetches
           => /\ PickWithData(lastEvent')
              /\ run[lastEvent'.run].pc = "picker"
              /\ run'[lastEvent'.run].pc = "fetch"
              /\ isLoading' ]_vars

\* C15 witness: a run has gone through permission and picker and its request
\* has just been issued, with the indicator on.
C15_Witness ==
    /\ PickWithData(lastEvent)
    /\ run[lastEvent.run].pc = "fetch"
    /\ isLoading
    /\ permissionRequests = 1 /\ pickerLaunches = 1 /\ fetches = 1


\* C16: a non-cancelled picker result without encoded data ends the run with
\* one alert, without Loading and without a request; ocrText and isLoading
\* are unchanged, while the displayed image is already the new pick.
C16_NoDataAlertsAndShowsImage ==
    [][ NoImageData(lastEvent')
        => /\ run'[lastEvent'.run].pc = "done"
           /\ alertCount' = alertCount + 1
           /\ lastAlert' = <<TitleError, MsgNoImageData>>
           /\ sendCalls' = sendCalls /\ fetches' = fetches
           /\ isLoading' = isLoading /\ ocrText' = ocrText
           /\ imageUri' = lastEvent'.data.result.assets[1].uri ]_vars

\* C16 witness: the second pick carried no data; its image is on display
\* next to the result of the first run.
C16_Witness ==
    /\ NoImageData(lastEvent)
    /\ lastEvent.run = 2
    /\ imageUri = "file:///b.jpg"
    /\ ocrText = "Hello"
    /\ lastAlert = <<TitleError, MsgNoImageData>>
    /\ ~isLoading


\* C17: whenever a result text is displayed and no operation is in flight,
\* the text is the outcome of the run whose pick is the displayed image.
C17_ResultBelongsToImage ==
    (ShowsResult /\ InFlightRuns = {}) => textRun = imageRun


\* C18: a request is issued only by a step that finds the credential
\* present; a run that reaches sendToOCR while the credential is absent
\* issues no request and ends at once with the configuration message in the
\* result text and in an alert, and with the loading flag cleared.
C18_NoRequestWithoutKey ==
    [][ /\ fetches' # fetches => apiKey
        /\ (PickWithData(lastEvent') /\ ~apiKey)
           => /\ fetches' = fetches
              /\ run'[lastEvent'.run].pc = "done"
              /\ ocrText' = FailedPrefix \o MsgKeyMissing
              /\ alertCount' = alertCount + 1
              /\ lastAlert' = <<TitleError, AlertPrefix \o MsgKeyMissing>>
              /\ ~isLoading' ]_vars

\* A run was enabled by the credential read at mount, found it absent in
\* sendToOCR and ended with the configuration message, no request issued.
C18_Witness ==
    /\ PickWithData(lastEvent)
    /\ mountKey = "present"
    /\ ~apiKey
    /\ sendCalls = 1
    /\ fetches = 0
    /\ run[lastEvent.run].pc = "done"
    /\ ocrText = FailedPrefix \o MsgKeyMissing
    /\ lastAlert = <<TitleError, AlertPrefix \o MsgKeyMissing>>
    /\ ~isLoading


\* C19: apiConfigured is false until the mount effect has run, changes only
\* from false to true, and only in the mount effect when it reads a key; no
\* later step resets it, even one that finds the key gone.  The control is
\* enabled exactly when apiConfigured is true and isLoading is false.
C19_ConfiguredMonotonic ==
    /\ [](~mounted => ~apiConfigured)
    /\ [](~ButtonDisabled <=> (apiConfigured /\ ~isLoading))
    /\ [][ /\ apiConfigured => apiConfigured'
           /\ apiConfigured' # apiConfigured
              => /\ lastEvent'.kind = "mount"
                 /\ apiKey
                 /\ ~mounted ]_vars

\* The flag set at mount is still set, and the control enabled, after a run
\* found the key gone and ended with the configuration message.
C19_Witness ==
    /\ apiConfigured
    /\ mountKey = "present"
    /\ ~apiKey
    /\ run[1].pc = "done"
    /\ ocrText = FailedPrefix \o MsgKeyMissing
    /\ ~ButtonDisabled

====
